---- MODULE Spec2Model ----
(***************************************************************************)
(* Tokenomics accounting core of suban-ai-backend: the balance ledger      *)
(* (BalanceTrackerService over the TokenBalance and UsageRecord            *)
(* collections), the deposit routes in front of it, and the settlement     *)
(* triggers.  Every database round trip of a handler is one step, so that  *)
(* concurrent requests interleave exactly where the code awaits.           *)
(***************************************************************************)
EXTENDS Integers, Sequences, FiniteSets, TLC

\* ------------------------------------------------------------------ bounds
Wallets == {"w1", "w2"}
TxRefs == {"t1", "t2"}
Amounts == {-1, 1, 2}
Hashes == {"h1", "h2"}
Prices == {1}
Reqs == {"q1", "q2"}
Triggers == {"threshold", "scheduled", "admin"}
MaxRequests == 2
MaxSamples == 1
\* the oracle on its own: cache length, clock range, feed and cost values
MaxCache == 3
MaxClock == 3
\* the settlement engine on its own: usage records found in the store
MaxRecords == 3
RecordAmounts == {1, 2}
FeedPrices == {-1, 0, 10, 11, 12}

\* ------------------------------------------------- configuration constants
\* SETTLEMENT_THRESHOLD_TOKENS (default 1000), scaled to the model's amounts
thresholdTokens == 2
\* limit the threshold monitor passes to getUnsettledRecords (1000), scaled:
\* as in the deployment (1000 records of at least burnFloor = 0.05 tokens
\* against a threshold of 1000 tokens) the records of one scan can stay below
\* the threshold
ThresholdScanLimit == 1
\* batch size of a settlement run (getUnsettledRecords default 100), scaled
BatchLimit == 2
\* TWAP_WINDOW_MINUTES (default 10): the unit of the clock
TwapWindow == 1

VARIABLES
    mongoConnected,   \* mongoose.connection.readyState === 1
    balances,         \* TokenBalance collection, one document per wallet
    usageRecords,     \* UsageRecord collection in creation (timestamp) order
    priceCache,       \* PriceOracleService.priceCache
    req,              \* in-flight HTTP requests / ledger calls and their locals
    started,          \* number of requests issued so far
    isSettling,       \* global settlement lock
    run,              \* settlement runs, one per trigger
    response,         \* the outcome most recently returned to a caller
    settlement,       \* the outcome of the most recent settlement run
    now,              \* Date.now(), in units of the TWAP window
    burnFloor,        \* PriceOracleService.burnFloor
    burnCeiling,      \* PriceOracleService.burnCeiling
    returned,         \* what the price oracle's last call returned or threw
    solana,           \* SolanaConnectionService: connection, rpcUrl, currentUrlIndex
    conn,             \* calls of the connection service in progress
    voice             \* GrokVoiceService.sessions and the sessions' fields

vars == <<mongoConnected, balances, usageRecords, priceCache, req, started,
          isSettling, run, response, settlement, now, burnFloor, burnCeiling,
          returned, solana, conn, voice>>

\* the price oracle's configuration, clock and last outcome
oracleVars == <<now, burnFloor, burnCeiling, returned>>

\* everything outside the price oracle
ledgerVars == <<mongoConnected, balances, usageRecords, req, started,
                isSettling, run, response, settlement>>

\* the chain connection service and the voice service
serviceVars == <<solana, conn, voice>>

\* ------------------------------------------------------------- numbers
\* JavaScript numbers as the oracle meets them: NaN, Infinity and the
\* rationals num/den with den > 0
NaN == [kind |-> "nan", num |-> 0, den |-> 1]

Infinity == [kind |-> "inf", num |-> 0, den |-> 1]

Ratio(n, d) == [kind |-> "num", num |-> n, den |-> d]

Number(n) == Ratio(n, 1)

IsNaN(a) == a.kind = "nan"

\* a < b ; every comparison with NaN is false
Less(a, b) ==
    IF IsNaN(a) \/ IsNaN(b) THEN FALSE
    ELSE IF a.kind = "inf" THEN FALSE
    ELSE IF b.kind = "inf" THEN TRUE
    ELSE a.num * b.den < b.num * a.den

\* a <= b
LessEq(a, b) ==
    IF IsNaN(a) \/ IsNaN(b) THEN FALSE
    ELSE IF b.kind = "inf" THEN TRUE
    ELSE IF a.kind = "inf" THEN FALSE
    ELSE a.num * b.den <= b.num * a.den

\* a + b
Plus(a, b) ==
    IF IsNaN(a) \/ IsNaN(b) THEN NaN
    ELSE IF a.kind = "inf" \/ b.kind = "inf" THEN Infinity
    ELSE Ratio(a.num * b.den + b.num * a.den, a.den * b.den)

\* a / n for a count n >= 1
DividedBy(a, n) ==
    IF a.kind = "num" THEN Ratio(a.num, a.den * n) ELSE a

\* a / b for a divisor b > 0
Over(a, b) ==
    IF IsNaN(a) \/ IsNaN(b) THEN NaN
    ELSE IF b.kind = "inf" THEN (IF a.kind = "inf" THEN NaN ELSE Number(0))
    ELSE IF a.kind = "inf" THEN Infinity
    ELSE Ratio(a.num * b.den, a.den * b.num)

\* Math.min(a, b): NaN if either argument is NaN
MathMin(a, b) ==
    IF IsNaN(a) \/ IsNaN(b) THEN NaN ELSE IF Less(b, a) THEN b ELSE a

\* Math.max(a, b): NaN if either argument is NaN
MathMax(a, b) ==
    IF IsNaN(a) \/ IsNaN(b) THEN NaN ELSE IF Less(a, b) THEN b ELSE a

\* parseFloat of the price field: a JSON number or numeric string gives the
\* number (1e999 and "Infinity" give Infinity), any other text gives NaN
ParseFloat(priceValue) ==
    IF priceValue.tag = "number" THEN Number(priceValue.n)
    ELSE IF priceValue.tag = "Infinity" THEN Infinity
    ELSE NaN

\* what the price feed can answer
FeedNumber(n) == [tag |-> "number", n |-> n]

FeedAnswers ==
    {[tag |-> t, n |-> 0] : t \in {"failed", "missing", "text", "Infinity"}}
        \cup {FeedNumber(n) : n \in FeedPrices}

\* what a chat message is estimated to cost and turns out to cost, in USD
ChatCosts == {Number(1), Number(3)}

\* the costs a caller asks to convert, and the values the burn bounds are
\* configured with
UsdCosts == {Number(-5), Number(0), Number(11), Number(15), Number(30), NaN}

BurnBounds == {Number(1), Number(2)}

\* ------------------------------------------------------------- data model
\* new TokenBalance({... 0, 0, 0, []}) ; exists = FALSE means no document,
\* copies counts the documents the collection holds for the wallet
NoDocument ==
    [exists |-> FALSE, depositedAmount |-> 0, consumedAmount |-> 0,
     currentBalance |-> 0, transactions |-> <<>>, copies |-> 0]

NewTokenBalance ==
    [exists |-> TRUE, depositedAmount |-> 0, consumedAmount |-> 0,
     currentBalance |-> 0, transactions |-> <<>>, copies |-> 1]

\* a document as an earlier verified deposit of 2 tokens (txHash t1) left it:
\* the store outlives the process, so the service may start over it
FundedBalance ==
    [exists |-> TRUE, depositedAmount |-> 2, consumedAmount |-> 0,
     currentBalance |-> 2,
     transactions |-> <<[type |-> "deposit", amount |-> 2, txHash |-> "t1"]>>,
     copies |-> 1]

\* the in-memory copy of the scalar fields a handler holds after findOne
Snapshot(doc) ==
    [depositedAmount |-> doc.depositedAmount,
     consumedAmount |-> doc.consumedAmount,
     currentBalance |-> doc.currentBalance]

IdleRequest ==
    [pc |-> "idle", kind |-> "none", walletAddress |-> "w1", amount |-> 0,
     txHash |-> "none", balance |-> Snapshot(NoDocument), dupAtStart |-> FALSE,
     verified |-> FALSE, route |-> "none"]

IdleRun ==
    [pc |-> "idle", batch |-> <<>>, txHash |-> "none",
     burnAmount |-> 0, treasuryAmount |-> 0]

\* faulty variant: the query matches the first list entry only
\* ('transactions.0.txHash')
TxRecordedFirstEntryOnly(t) ==
    \E w \in Wallets :
        /\ Len(balances[w].transactions) >= 1
        /\ balances[w].transactions[1].txHash = t

\* TokenBalance.findOne({'transactions.txHash': txHash}) finds a document
TxRecorded(t) ==
    \E w \in Wallets :
        \E i \in 1..Len(balances[w].transactions) :
            balances[w].transactions[i].txHash = t

\* history of the call: a deposit carrying reference t is on some wallet's
\* list at the moment the call is made (kept with the call for the proofs)
AlreadyCredited(t) ==
    \E w \in Wallets :
        \E i \in 1..Len(balances[w].transactions) :
            /\ balances[w].transactions[i].type = "deposit"
            /\ balances[w].transactions[i].txHash = t

\* BURN_FLOOR || '0.05' and BURN_CEILING || '50'
DefaultBurnFloor == Ratio(1, 20)

DefaultBurnCeiling == Number(50)

NothingReturned == [call |-> "none", ok |-> TRUE, value |-> NaN]

\* ------------------------------------------- chain connection: data model
\* the endpoints: SOLANA_RPC_URL and the built-in fallback list (four in the
\* source, two here)
fallbackUrls == <<"f1", "f2">>

Endpoints == {"primary"} \cup {fallbackUrls[i] : i \in 1..Len(fallbackUrls)}

\* who uses the service: the constructor's own initializeConnection and the
\* callers of getConnectionHealthy
Callers == {"boot", "c1", "c2"}

\* the service as its constructor leaves it: rpcUrl from the environment, and
\* the handle initializeConnection created before its first await
NewService(rpcUrl) ==
    [connection |-> rpcUrl, rpcUrl |-> rpcUrl, currentUrlIndex |-> 0]

\* no call in progress; tried and seen are history kept with a call: the
\* probes it made inside initializeConnection, in order, and the endpoints
\* that answered any probe since it began
IdleCall ==
    [pc |-> "idle", target |-> "none", i |-> 0, tried |-> <<>>, seen |-> {},
     handle |-> "none"]

\* the constructor's initializeConnection, awaiting its test of rpcUrl
BootCall(rpcUrl) ==
    [IdleCall EXCEPT !.pc = "primary", !.target = rpcUrl]

CallsAtStart(rpcUrl) ==
    [c \in Callers |-> IF c = "boot" THEN BootCall(rpcUrl) ELSE IdleCall]

\* ---------------------------------------------------- voice: data model
Sessions == {"s1", "s2"}

\* private maxReconnectAttempts = 3
maxReconnectAttempts == 3

\* the codes a WebSocket 'close' event can carry: normal closure, no status,
\* abnormal closure
CloseCodes == {1000, 1005, 1006}

\* a session that createSession has not made yet.  socket is the state of the
\* WebSocket connect() made last, closing that close() was called on it,
\* timer that handleReconnect's setTimeout is pending; handed (createSession
\* has returned the session) and closeCalled (close() has been called on it)
\* are history
NoSession ==
    [created |-> FALSE, inMap |-> FALSE, isConnected |-> FALSE, ws |-> "null",
     socket |-> "none", closing |-> FALSE, timer |-> FALSE,
     reconnectAttempts |-> 0, handed |-> FALSE, closeCalled |-> FALSE]

\* the two services in the ledger's specifications: configured, not in use
ServicesAtStart ==
    /\ solana = NewService("primary")
    /\ conn = CallsAtStart("primary")
    /\ voice = [s \in Sessions |-> NoSession]

Init ==
    /\ mongoConnected = TRUE
    /\ balances \in {[w \in Wallets |-> NoDocument],
                     [w \in Wallets |-> IF w = "w1" THEN FundedBalance ELSE NoDocument]}
    /\ usageRecords = <<>>
    /\ priceCache = <<>>
    /\ req = [q \in Reqs |-> IdleRequest]
    /\ started = 0
    /\ isSettling = FALSE
    /\ run = [r \in Triggers |-> IdleRun]
    /\ response = "none"
    /\ settlement = "none"
    /\ now = 0
    /\ burnFloor = DefaultBurnFloor
    /\ burnCeiling = DefaultBurnCeiling
    /\ returned = NothingReturned
    /\ ServicesAtStart

\* ---------------------------------------------------------- environment
MongoDisconnect ==
    /\ mongoConnected
    /\ mongoConnected' = FALSE
    /\ UNCHANGED <<balances, usageRecords, priceCache, req, started, isSettling, run, response, settlement>>
    /\ UNCHANGED oracleVars
    /\ UNCHANGED serviceVars

MongoReconnect ==
    /\ ~mongoConnected
    /\ mongoConnected' = TRUE
    /\ UNCHANGED <<balances, usageRecords, priceCache, req, started, isSettling, run, response, settlement>>
    /\ UNCHANGED oracleVars
    /\ UNCHANGED serviceVars

\* --------------------------------------------------------- price oracle
\* the paths of fetchCurrentPrice that throw before a price is parsed: the
\* request fails, no data, no entry for the mint, or the price field missing
FeedThrows(priceValue) == priceValue.tag \in {"failed", "missing"}

\* if (isNaN(price) || price <= 0) throw 'Invalid price value'
InvalidPrice(price) == IsNaN(price) \/ LessEq(price, Number(0))

\* faulty variant: the comparison is turned round, only old samples are kept
CleanCacheInverted(cache, t) ==
    SelectSeq(cache, LAMBDA entry : t - entry.timestamp > TwapWindow * 2)

\* priceCache.filter(entry => now - entry.timestamp <= windowMs * 2)
CleanCache(cache, t) ==
    SelectSeq(cache, LAMBDA entry : t - entry.timestamp <= TwapWindow * 2)

\* what the catch block of fetchCurrentPrice answers: the last cached price,
\* or the error again when nothing is cached
CachedOrThrow(cache) ==
    IF Len(cache) > 0
    THEN [call |-> "fetchCurrentPrice", ok |-> TRUE, value |-> cache[Len(cache)].price]
    ELSE [call |-> "fetchCurrentPrice", ok |-> FALSE, value |-> NaN]

\* fetchCurrentPrice(), the feed answering priceValue
FetchCurrentPrice(priceValue) ==
    /\ LET price == ParseFloat(priceValue)
       IN  IF FeedThrows(priceValue) \/ InvalidPrice(price)
           THEN /\ returned' = CachedOrThrow(priceCache)
                /\ UNCHANGED priceCache
           ELSE /\ priceCache' = CleanCache(
                        Append(priceCache, [price |-> price, timestamp |-> now]), now)
                /\ returned' = [call |-> "fetchCurrentPrice", ok |-> TRUE, value |-> price]
    /\ UNCHANGED <<now, burnFloor, burnCeiling>>
    /\ UNCHANGED ledgerVars
    /\ UNCHANGED serviceVars

RECURSIVE SumPrices(_)
\* reduce((acc, entry) => acc + entry.price, 0)
SumPrices(entries) ==
    IF entries = <<>> THEN Number(0)
    ELSE Plus(SumPrices(SubSeq(entries, 1, Len(entries) - 1)),
              entries[Len(entries)].price)

\* faulty variant: the filter keeps what cleanCache keeps (twice the window)
RelevantPricesWide(cache, t) ==
    SelectSeq(cache, LAMBDA entry : t - entry.timestamp <= TwapWindow * 2)

\* priceCache.filter(entry => now - entry.timestamp <= windowMs)
RelevantPrices(cache, t) ==
    SelectSeq(cache, LAMBDA entry : t - entry.timestamp <= TwapWindow)

\* getTWAPPrice(): throws on an empty cache
GetTWAPPrice(cache, t) ==
    IF Len(cache) = 0
    THEN [call |-> "getTWAPPrice", ok |-> FALSE, value |-> NaN]
    ELSE LET relevantPrices == RelevantPrices(cache, t)
         IN  IF Len(relevantPrices) = 0
             THEN [call |-> "getTWAPPrice", ok |-> TRUE,
                   value |-> cache[Len(cache)].price]
             ELSE [call |-> "getTWAPPrice", ok |-> TRUE,
                   value |-> DividedBy(SumPrices(relevantPrices), Len(relevantPrices))]

\* faulty variant: the floor is not applied
ClampCeilingOnly(rawBurn, floor, ceiling) == MathMin(rawBurn, ceiling)

\* Math.max(this.burnFloor, Math.min(rawBurn, this.burnCeiling))
Clamp(rawBurn, floor, ceiling) == MathMax(floor, MathMin(rawBurn, ceiling))

\* calculateTokenBurn(usdCost)
CalculateTokenBurn(usdCost, cache, t, floor, ceiling) ==
    LET twap == GetTWAPPrice(cache, t)
    IN  IF ~twap.ok \/ LessEq(twap.value, Number(0))
        THEN [call |-> "calculateTokenBurn", ok |-> FALSE, value |-> NaN]
        ELSE [call |-> "calculateTokenBurn", ok |-> TRUE,
              value |-> Clamp(Over(usdCost, twap.value), floor, ceiling)]

\* a caller reads the windowed price
GetTWAPPriceCall ==
    /\ returned' = GetTWAPPrice(priceCache, now)
    /\ UNCHANGED <<priceCache, now, burnFloor, burnCeiling>>
    /\ UNCHANGED ledgerVars
    /\ UNCHANGED serviceVars

\* a caller converts a cost
CalculateTokenBurnCall(usdCost) ==
    /\ returned' = CalculateTokenBurn(usdCost, priceCache, now, burnFloor, burnCeiling)
    /\ UNCHANGED <<priceCache, now, burnFloor, burnCeiling>>
    /\ UNCHANGED ledgerVars
    /\ UNCHANGED serviceVars

\* time passes
Tick ==
    /\ now < MaxClock
    /\ now' = now + 1
    /\ UNCHANGED <<priceCache, burnFloor, burnCeiling, returned>>
    /\ UNCHANGED ledgerVars
    /\ UNCHANGED serviceVars

\* ------------------------------------------------------- request helpers
\* a request is served by the first free handler slot
CanStart(q) ==
    /\ req[q].pc = "idle"
    /\ \A p \in Reqs : (p = "q1" /\ q = "q2") => req[p].pc # "idle"
    /\ started < MaxRequests

NewRequest(k, w, a, t) ==
    [pc |-> "start", kind |-> k, walletAddress |-> w, amount |-> a,
     txHash |-> t, balance |-> Snapshot(NoDocument),
     dupAtStart |-> AlreadyCredited(t), verified |-> FALSE, route |-> "none"]

\* the handler answers the caller: its locals are gone, the caller holds the
\* outcome
Reply(q, res) ==
    /\ req' = [req EXCEPT ![q] = IdleRequest]
    /\ response' = res

\* the status POST /api/chat/message answers once the ledger call r it made
\* has ended with res: 402 after the getBalance of the insufficient branch,
\* the reply after the deduction, and 'Server error' from the catch block for
\* whatever a ledger call threw
ChatStatus(r, res) ==
    IF r.kind = "getBalance" /\ res \in {"ok", "default"} THEN "402"
    ELSE IF r.kind = "deduct" /\ res = "ok" THEN "200"
    ELSE "500"

\* POST /api/chat/message going on after the ledger call r ended with res:
\* a sufficient balance leads to the LLM call, an insufficient one to the
\* getBalance whose currentBalance the 402 reports
ChatContinue(q, r, res) ==
    IF r.kind = "hasSufficientBalance" /\ res = "sufficient"
    THEN /\ req' = [req EXCEPT ![q] = [r EXCEPT !.pc = "llm"]]
         /\ UNCHANGED response
    ELSE IF r.kind = "hasSufficientBalance" /\ res = "insufficient"
         THEN /\ req' = [req EXCEPT ![q] = [r EXCEPT !.kind = "getBalance",
                                                     !.pc = "find"]]
              /\ UNCHANGED response
         ELSE Reply(q, ChatStatus(r, res))

\* the ledger call r returns or throws res: to the chat route when the route
\* made the call, to the caller otherwise
Respond(q, r, res) ==
    IF r.route = "chat" THEN ChatContinue(q, r, res) ELSE Reply(q, res)

Finish(q, res) == Respond(q, req[q], res)

\* ------------------------------------------------------------ getBalance
\* the calls that only read
ReadKinds == {"getBalance", "hasSufficientBalance"}

\* what a read answers from the balance it obtained: getBalance the document
\* (or the zeroed default), hasSufficientBalance
\* `balance.currentBalance >= requiredAmount`
ReadResult(r, currentBalance, isDefault) ==
    IF r.kind = "hasSufficientBalance"
    THEN (IF currentBalance >= r.amount THEN "sufficient" ELSE "insufficient")
    ELSE (IF isDefault THEN "default" ELSE "ok")

\* faulty variant: a read throws like a write
UnavailableThrows(r) == "error"

\* what a disconnected store answers: writes throw, reads go on with
\* getDefaultBalance
Unavailable(r) == IF r.kind \in ReadKinds THEN ReadResult(r, 0, TRUE) ELSE "error"

\* isMongoConnected guard, then TokenBalance.findOne({ walletAddress }),
\* on behalf of the call r running in slot q
FindOne(q, r) ==
    IF ~mongoConnected
    THEN Respond(q, r, Unavailable(r))
    ELSE IF balances[r.walletAddress].exists
         THEN IF r.kind \in ReadKinds
              THEN Respond(q, r, ReadResult(r, balances[r.walletAddress].currentBalance, FALSE))
              ELSE /\ req' = [req EXCEPT ![q] = [r EXCEPT
                                !.pc = "save",
                                !.balance = Snapshot(balances[r.walletAddress])]]
                   /\ UNCHANGED response
         ELSE /\ req' = [req EXCEPT ![q] = [r EXCEPT !.pc = "create"]]
              /\ UNCHANGED response

\* ---------------------------------------------- POST /api/token/deposit
\* the route reads {walletAddress, amount, txHash} (a missing or zero amount
\* is answered 400) and asks transactionVerifier.verifyDepositTransaction,
\* which touches no ledger state: the chain decides isValid
DepositRequest(q, w, a, t, isValid) ==
    /\ CanStart(q)
    /\ a # 0
    /\ IF isValid
       THEN /\ req' = [req EXCEPT ![q] =
                        [NewRequest("deposit", w, a, t) EXCEPT !.pc = "dupcheck",
                                                           !.verified = isValid]]
            /\ UNCHANGED response
       ELSE Respond(q, NewRequest("deposit", w, a, t), "VerificationFailed")
    /\ started' = started + 1
    /\ UNCHANGED <<mongoConnected, balances, usageRecords, priceCache, isSettling, run, settlement>>
    /\ UNCHANGED oracleVars
    /\ UNCHANGED serviceVars

\* ---------------------------------------- POST /api/token/deposit/scan
\* one signature found on the wallet's token account, carrying a transfer of
\* a tokens: the route first looks the signature up in the ledger
ScanRequest(q, w, a, t) ==
    /\ CanStart(q)
    /\ req' = [req EXCEPT ![q] =
                [NewRequest("scan", w, a, t) EXCEPT !.pc = "dupcheck"]]
    /\ started' = started + 1
    /\ UNCHANGED <<mongoConnected, balances, usageRecords, priceCache, isSettling, run, response, settlement>>
    /\ UNCHANGED oracleVars
    /\ UNCHANGED serviceVars

\* faulty variant: the verdict of the verifier is not looked at
ScanAcceptsAnyVerdict(isValid, actualAmount) == actualAmount > 0

\* scan only: verification follows the lookup, and a transfer that is not
\* valid or not positive is skipped
ScanAccepts(isValid, actualAmount) == isValid /\ actualAmount > 0

\* TokenBalance.findOne({'transactions.txHash': txHash}) of either route,
\* then the call of recordDeposit
DuplicateCheck(q) ==
    /\ req[q].pc = "dupcheck"
    /\ IF ~mongoConnected
       THEN Finish(q, "error")
       ELSE IF TxRecorded(req[q].txHash)
            THEN Finish(q, "DuplicateTransaction")
            ELSE IF req[q].kind = "scan"
                 THEN \E isValid \in BOOLEAN :
                        IF ScanAccepts(isValid, req[q].amount)
                        THEN /\ req' = [req EXCEPT ![q].pc = "find",
                                                    ![q].verified = isValid]
                             /\ UNCHANGED response
                        ELSE Finish(q, "VerificationFailed")
                 ELSE /\ req' = [req EXCEPT ![q].pc = "find"]
                      /\ UNCHANGED response
    /\ UNCHANGED <<mongoConnected, balances, usageRecords, priceCache, started, isSettling, run, settlement>>
    /\ UNCHANGED oracleVars
    /\ UNCHANGED serviceVars

\* recordDeposit, or a ledger call the chat route makes: connectivity guard
\* and getBalance's findOne
FindBalance(q) ==
    /\ req[q].pc = "find"
    /\ FindOne(q, req[q])
    /\ UNCHANGED <<mongoConnected, balances, usageRecords, priceCache, started, isSettling, run, settlement>>
    /\ UNCHANGED oracleVars
    /\ UNCHANGED serviceVars

\* deductTokens(walletAddress, amount, ...) up to getBalance's findOne
DeductRequest(q, w, a) ==
    /\ CanStart(q)
    /\ FindOne(q, NewRequest("deduct", w, a, "none"))
    /\ started' = started + 1
    /\ UNCHANGED <<mongoConnected, balances, usageRecords, priceCache, isSettling, run, settlement>>
    /\ UNCHANGED oracleVars
    /\ UNCHANGED serviceVars

\* getBalance(walletAddress) up to its findOne
GetBalanceRequest(q, w) ==
    /\ CanStart(q)
    /\ FindOne(q, NewRequest("getBalance", w, 0, "none"))
    /\ started' = started + 1
    /\ UNCHANGED <<mongoConnected, balances, usageRecords, priceCache, isSettling, run, settlement>>
    /\ UNCHANGED oracleVars
    /\ UNCHANGED serviceVars

\* hasSufficientBalance(walletAddress, requiredAmount) up to getBalance's
\* findOne
HasSufficientBalanceRequest(q, w, a) ==
    /\ CanStart(q)
    /\ FindOne(q, NewRequest("hasSufficientBalance", w, a, "none"))
    /\ started' = started + 1
    /\ UNCHANGED <<mongoConnected, balances, usageRecords, priceCache, isSettling, run, settlement>>
    /\ UNCHANGED oracleVars
    /\ UNCHANGED serviceVars

\* faulty variant: the collection has no unique index on walletAddress
UniqueWalletKeyAbsent == FALSE

\* walletAddress is the unique key of TokenBalance: a second insert is refused
\* with a duplicate key error, which getBalance rethrows
UniqueWalletKey == TRUE

\* new TokenBalance({...}).save() of a first access
CreateBalance(q) ==
    /\ req[q].pc = "create"
    /\ LET w == req[q].walletAddress
           k == req[q].kind
       IN  IF ~mongoConnected
           THEN /\ Finish(q, Unavailable(req[q]))
                /\ UNCHANGED balances
           ELSE IF balances[w].exists /\ UniqueWalletKey
                THEN /\ Finish(q, "DuplicateKey")
                     /\ UNCHANGED balances
                ELSE /\ balances' = [balances EXCEPT ![w] =
                            IF balances[w].exists
                            THEN [@ EXCEPT !.copies = @ + 1]
                            ELSE NewTokenBalance]
                     /\ IF k \in ReadKinds
                        THEN Finish(q, ReadResult(req[q], NewTokenBalance.currentBalance, FALSE))
                        ELSE /\ req' = [req EXCEPT ![q].pc = "save",
                                        ![q].balance = Snapshot(NewTokenBalance)]
                             /\ UNCHANGED response
    /\ UNCHANGED <<mongoConnected, usageRecords, priceCache, started, isSettling, run, settlement>>
    /\ UNCHANGED oracleVars
    /\ UNCHANGED serviceVars

\* ------------------------------------------------------------- document.save
\* faulty variant: the list is written back as the handler holds it, the new
\* entry alone
SaveDocumentOverwritingList(doc, local, modified, entry) ==
    [doc EXCEPT
        !.depositedAmount = IF "depositedAmount" \in modified
                            THEN local.depositedAmount ELSE @,
        !.consumedAmount = IF "consumedAmount" \in modified
                           THEN local.consumedAmount ELSE @,
        !.currentBalance = IF "currentBalance" \in modified
                           THEN local.currentBalance ELSE @,
        !.transactions = <<entry>>]

\* save() of a loaded document sends only what the handler modified: the
\* modified scalar paths as $set of the values computed in memory, and the
\* pushed transaction as $push onto the stored list
SaveDocument(doc, local, modified, entry) ==
    [doc EXCEPT
        !.depositedAmount = IF "depositedAmount" \in modified
                            THEN local.depositedAmount ELSE @,
        !.consumedAmount = IF "consumedAmount" \in modified
                           THEN local.consumedAmount ELSE @,
        !.currentBalance = IF "currentBalance" \in modified
                           THEN local.currentBalance ELSE @,
        !.transactions = Append(@, entry)]

\* faulty variant: the update is not filtered by the document's id
UpdateEvery(store, walletAddress, doc) ==
    [w \in Wallets |->
        IF w = walletAddress \/ store[w].exists THEN doc ELSE store[w]]

\* save() updates the one document it was called on ({_id: doc._id})
UpdateOne(store, walletAddress, doc) ==
    [store EXCEPT ![walletAddress] = doc]

\* the paths recordDeposit assigns
DepositPaths == {"depositedAmount", "currentBalance"}

\* the paths deductTokens assigns
DeductionPaths == {"consumedAmount", "currentBalance"}

\* balance.depositedAmount += amount; balance.currentBalance += amount
ApplyDeposit(local, amount) ==
    [local EXCEPT !.depositedAmount = @ + amount,
                  !.currentBalance = @ + amount]

\* balance.consumedAmount += amount; balance.currentBalance -= amount
ApplyDeduction(local, amount) ==
    [local EXCEPT !.consumedAmount = @ + amount,
                  !.currentBalance = @ - amount]

\* faulty variant: the check compares against what was ever deposited
InsufficientBalanceAgainstDeposits(local, amount) == local.depositedAmount < amount

\* if (balance.currentBalance < amount) throw 'Insufficient token balance'
InsufficientBalance(local, amount) == local.currentBalance < amount

\* ---------------------------------------------------------- recordDeposit
SaveDeposit(q) ==
    /\ req[q].pc = "save"
    /\ req[q].kind \in {"deposit", "scan"}
    /\ LET w == req[q].walletAddress
           local == ApplyDeposit(req[q].balance, req[q].amount)
           entry == [type |-> "deposit", amount |-> req[q].amount,
                     txHash |-> req[q].txHash]
       IN  IF ~mongoConnected
           THEN /\ Finish(q, "error")
                /\ UNCHANGED balances
           ELSE /\ balances' = UpdateOne(balances, w,
                                SaveDocument(balances[w], local, DepositPaths, entry))
                /\ Finish(q, "ok")
    /\ UNCHANGED <<mongoConnected, usageRecords, priceCache, started, isSettling, run, settlement>>
    /\ UNCHANGED oracleVars
    /\ UNCHANGED serviceVars

\* ----------------------------------------------------------- deductTokens
SaveDeduction(q) ==
    /\ req[q].pc = "save"
    /\ req[q].kind = "deduct"
    /\ LET w == req[q].walletAddress
           local == ApplyDeduction(req[q].balance, req[q].amount)
           entry == [type |-> "usage", amount |-> 0 - req[q].amount,
                     txHash |-> "none"]
       IN  IF InsufficientBalance(req[q].balance, req[q].amount)
           THEN /\ Finish(q, "InsufficientBalance")
                /\ UNCHANGED balances
           ELSE IF ~mongoConnected
                THEN /\ Finish(q, "error")
                     /\ UNCHANGED balances
                ELSE /\ balances' = UpdateOne(balances, w,
                                    SaveDocument(balances[w], local, DeductionPaths, entry))
                     /\ req' = [req EXCEPT ![q].pc = "usage"]
                     /\ UNCHANGED response
    /\ UNCHANGED <<mongoConnected, usageRecords, priceCache, started, isSettling, run, settlement>>
    /\ UNCHANGED oracleVars
    /\ UNCHANGED serviceVars

\* UsageRecord.create({walletAddress, ..., tokensBurned: amount, settled: false})
NewUsageRecord(w, amount) ==
    [walletAddress |-> w, tokensBurned |-> amount, settled |-> FALSE,
     txHash |-> "none"]

\* priceOracle.getTWAPPrice() throws on an empty cache; then UsageRecord.create
CreateUsageRecord(q) ==
    /\ req[q].pc = "usage"
    /\ IF ~GetTWAPPrice(priceCache, now).ok \/ ~mongoConnected
       THEN /\ Finish(q, "error")
            /\ UNCHANGED usageRecords
       ELSE /\ usageRecords' = Append(usageRecords,
                    NewUsageRecord(req[q].walletAddress, req[q].amount))
            /\ Finish(q, "ok")
    /\ UNCHANGED <<mongoConnected, balances, priceCache, started, isSettling, run, settlement>>
    /\ UNCHANGED oracleVars
    /\ UNCHANGED serviceVars

\* ------------------------------------------------ POST /api/chat/message
\* a burn in whole tokens, as the ledger counts amounts
TokensOf(v) == v.num \div v.den

\* the route up to hasSufficientBalance's findOne, for a non-admin caller:
\* 400 for a missing message or wallet, 403 past the free tier's daily limit,
\* then calculateTokenBurn(estimatedCost), which throws without price data
ChatMessage(q, w, isComplete, hasExceededLimit, estimatedCost) ==
    /\ CanStart(q)
    /\ LET requiredTokens ==
                CalculateTokenBurn(estimatedCost, priceCache, now, burnFloor, burnCeiling)
       IN  IF ~isComplete THEN Reply(q, "400")
           ELSE IF hasExceededLimit THEN Reply(q, "403")
           ELSE IF ~requiredTokens.ok THEN Reply(q, "500")
           ELSE FindOne(q, [NewRequest("hasSufficientBalance", w,
                                       TokensOf(requiredTokens.value), "none")
                                EXCEPT !.route = "chat"])
    /\ started' = started + 1
    /\ UNCHANGED <<mongoConnected, balances, usageRecords, priceCache, isSettling, run, settlement>>
    /\ UNCHANGED oracleVars
    /\ UNCHANGED serviceVars

\* llmService.generateResponse answers (or throws), the actual cost is
\* converted and deductTokens is called; the usage metering in between
\* swallows its own failures and touches no ledger state
ChatGenerate(q, isAnswered, actualCostUsd) ==
    /\ req[q].pc = "llm"
    /\ LET actualRequiredTokens ==
                CalculateTokenBurn(actualCostUsd, priceCache, now, burnFloor, burnCeiling)
       IN  IF ~isAnswered \/ ~actualRequiredTokens.ok
           THEN Reply(q, "500")
           ELSE /\ req' = [req EXCEPT ![q].kind = "deduct",
                                      ![q].amount = TokensOf(actualRequiredTokens.value),
                                      ![q].pc = "find"]
                /\ UNCHANGED response
    /\ UNCHANGED <<mongoConnected, balances, usageRecords, priceCache, started, isSettling, run, settlement>>
    /\ UNCHANGED oracleVars
    /\ UNCHANGED serviceVars

\* ------------------------------------------------- unsettled usage records
RECURSIVE UnsettledFromNewestFirst(_, _)
\* faulty variant: sort({timestamp: -1})
UnsettledFromNewestFirst(records, i) ==
    IF i > Len(records) THEN <<>>
    ELSE IF records[i].settled
         THEN UnsettledFromNewestFirst(records, i + 1)
         ELSE UnsettledFromNewestFirst(records, i + 1) \o <<i>>

RECURSIVE UnsettledFrom(_, _)
\* ids of the records with settled = false, from id i on, oldest first
UnsettledFrom(records, i) ==
    IF i > Len(records) THEN <<>>
    ELSE IF records[i].settled
         THEN UnsettledFrom(records, i + 1)
         ELSE <<i>> \o UnsettledFrom(records, i + 1)

\* faulty variant: find({}) without the settled filter
GetUnsettledRecordsUnfiltered(limit) ==
    IF ~mongoConnected THEN <<>>
    ELSE LET ids == [i \in 1..Len(usageRecords) |-> i]
         IN  IF limit = 0 \/ Len(ids) < limit THEN ids ELSE SubSeq(ids, 1, limit)

\* UsageRecord.find({settled: false}).sort({timestamp: 1}).limit(limit);
\* an unreachable store answers [].  MongoDB takes limit(0) as no limit.
GetUnsettledRecords(limit) ==
    IF ~mongoConnected THEN <<>>
    ELSE LET ids == UnsettledFrom(usageRecords, 1)
         IN  IF limit = 0 \/ Len(ids) < limit THEN ids ELSE SubSeq(ids, 1, limit)

RECURSIVE SumTokens(_, _)
\* reduce((sum, record) => sum + record.tokensBurned, 0) over a list of ids
SumTokens(records, ids) ==
    IF ids = <<>> THEN 0
    ELSE records[Head(ids)].tokensBurned + SumTokens(records, Tail(ids))

IdsOf(ids) == {ids[i] : i \in 1..Len(ids)}

\* faulty variant: the update sets the hash and leaves settled as it is
MarkAsSettledHashOnly(records, recordIds, txHash) ==
    [i \in 1..Len(records) |->
        IF i \in recordIds
        THEN [records[i] EXCEPT !.txHash = txHash]
        ELSE records[i]]

\* faulty variant: updateOne, which updates the first matching record only
MarkAsSettledFirstOnly(records, recordIds, txHash) ==
    [i \in 1..Len(records) |->
        IF i \in recordIds /\ (\A j \in recordIds : i <= j)
        THEN [records[i] EXCEPT !.settled = TRUE, !.txHash = txHash]
        ELSE records[i]]

\* UsageRecord.updateMany({_id: {$in: recordIds}}, {$set: {settled: true, txHash}})
MarkAsSettled(records, recordIds, txHash) ==
    [i \in 1..Len(records) |->
        IF i \in recordIds
        THEN [records[i] EXCEPT !.settled = TRUE, !.txHash = txHash]
        ELSE records[i]]

\* markAsSettled(recordIds, txHash) invoked through the ledger's interface
MarkAsSettledCall(recordIds, txHash) ==
    /\ recordIds # {}
    /\ IF ~mongoConnected
       THEN /\ response' = "error"
            /\ UNCHANGED usageRecords
       ELSE /\ usageRecords' = MarkAsSettled(usageRecords, recordIds, txHash)
            /\ UNCHANGED response
    /\ UNCHANGED <<mongoConnected, balances, priceCache, req, started, isSettling, run, settlement>>
    /\ UNCHANGED oracleVars
    /\ UNCHANGED serviceVars

\* ------------------------------------------------------ settlement triggers
\* threshold monitor tick: sum tokensBurned of the unsettled records and call
\* triggerManualSettlement once the sum reaches the threshold
ThresholdReached(records, ids) == SumTokens(records, ids) >= thresholdTokens

ThresholdTick ==
    /\ run["threshold"].pc = "idle"
    /\ IF ThresholdReached(usageRecords, GetUnsettledRecords(ThresholdScanLimit))
       THEN /\ run' = [run EXCEPT !["threshold"].pc = "trigger"]
            /\ UNCHANGED settlement
       ELSE /\ settlement' = "below"
            /\ UNCHANGED run
    /\ UNCHANGED <<mongoConnected, balances, usageRecords, priceCache, req, started, isSettling, response>>
    /\ UNCHANGED oracleVars
    /\ UNCHANGED serviceVars

\* amounts of the split are kept in half tokens, so that totalTokens * 0.5 is
\* exact as it is in floating point
HalfTokens(tokens) == 2 * tokens

\* burnAmount = totalTokens * 0.5, in half tokens
BurnAmount(totalTokens) == totalTokens

\* treasuryAmount = totalTokens - burnAmount, in half tokens
TreasuryAmount(totalTokens) == HalfTokens(totalTokens) - BurnAmount(totalTokens)

\* stats(): totalBurned and totalToTreasury over the settled records (in half
\* tokens), pendingSettlement over the unsettled ones (in tokens)
SettlementStats ==
    LET settled == SelectSeq([i \in 1..Len(usageRecords) |-> i],
                             LAMBDA i : usageRecords[i].settled)
        SettledTokens == SumTokens(usageRecords, settled)
    IN  [totalBurned |-> BurnAmount(SettledTokens),
         totalToTreasury |-> TreasuryAmount(SettledTokens),
         pendingSettlement |-> SumTokens(usageRecords, UnsettledFrom(usageRecords, 1))]

\* the point from which trigger r enters the settlement service
EntryPc(r) == IF r = "threshold" THEN "trigger" ELSE "idle"

\* faulty variant: the run does not look at the lock
MayEnterUnlocked == TRUE

\* a run that finds another run in flight returns without settling
MayEnter == ~isSettling

\* executeBatchSettlement / triggerManualSettlement: take the global lock and
\* pull a bounded batch of unsettled records; an empty batch ends the run
ExecuteBatchSettlement(r) ==
    /\ run[r].pc = EntryPc(r)
    /\ IF ~MayEnter
       THEN /\ run' = [run EXCEPT ![r] = IdleRun]
            /\ settlement' = "skipped"
            /\ UNCHANGED isSettling
       ELSE LET batch == GetUnsettledRecords(BatchLimit)
            IN  IF batch = <<>>
                THEN /\ run' = [run EXCEPT ![r] = IdleRun]
                     /\ settlement' = "empty"
                     /\ UNCHANGED isSettling
                ELSE /\ run' = [run EXCEPT ![r] =
                                [pc |-> "submit", batch |-> batch, txHash |-> "none",
                                 burnAmount |->
                                    BurnAmount(SumTokens(usageRecords, batch)),
                                 treasuryAmount |->
                                    TreasuryAmount(SumTokens(usageRecords, batch))]]
                     /\ isSettling' = TRUE
                     /\ UNCHANGED settlement
    /\ UNCHANGED <<mongoConnected, balances, usageRecords, priceCache, req, started, response>>
    /\ UNCHANGED oracleVars
    /\ UNCHANGED serviceVars

\* the single settlement transaction: the chain confirms it with a signature
\* or it fails / times out, which ends the run with nothing marked
SubmitSettlement(r) ==
    /\ run[r].pc = "submit"
    /\ \/ \E h \in Hashes :
            /\ run' = [run EXCEPT ![r].pc = "mark", ![r].txHash = h]
            /\ UNCHANGED <<isSettling, settlement>>
       \/ /\ run' = [run EXCEPT ![r] = IdleRun]
          /\ isSettling' = FALSE
          /\ settlement' = "failed"
    /\ UNCHANGED <<mongoConnected, balances, usageRecords, priceCache, req, started, response>>
    /\ UNCHANGED oracleVars
    /\ UNCHANGED serviceVars

\* after the confirmation: markAsSettled for every record id of the batch
MarkBatch(r) ==
    /\ run[r].pc = "mark"
    /\ IF ~mongoConnected
       THEN /\ settlement' = "error"
            /\ UNCHANGED usageRecords
       ELSE /\ usageRecords' = MarkAsSettled(usageRecords, IdsOf(run[r].batch), run[r].txHash)
            /\ settlement' = "settled"
    /\ run' = [run EXCEPT ![r] = IdleRun]
    /\ isSettling' = FALSE
    /\ UNCHANGED <<mongoConnected, balances, priceCache, req, started, response>>
    /\ UNCHANGED oracleVars
    /\ UNCHANGED serviceVars

SettlementStep ==
    \/ ThresholdTick
    \/ \E r \in Triggers : ExecuteBatchSettlement(r)
    \/ \E r \in Triggers : SubmitSettlement(r)
    \/ \E r \in Triggers : MarkBatch(r)
    \/ \E ids \in SUBSET (1..Len(usageRecords)), h \in Hashes : MarkAsSettledCall(ids, h)

LedgerStep(q) ==
    \/ \E w \in Wallets, a \in Amounts, t \in TxRefs, isValid \in BOOLEAN :
            DepositRequest(q, w, a, t, isValid)
    \/ \E w \in Wallets, a \in Amounts, t \in TxRefs : ScanRequest(q, w, a, t)
    \/ DuplicateCheck(q)
    \/ \E w \in Wallets, a \in Amounts : DeductRequest(q, w, a)
    \/ \E w \in Wallets : GetBalanceRequest(q, w)
    \/ \E w \in Wallets, a \in Amounts : HasSufficientBalanceRequest(q, w, a)
    \/ FindBalance(q)
    \/ CreateBalance(q)
    \/ SaveDeposit(q)
    \/ SaveDeduction(q)
    \/ CreateUsageRecord(q)

Environment ==
    \/ MongoDisconnect
    \/ MongoReconnect
    \/ \E price \in Prices :
            /\ Len(priceCache) < MaxSamples
            /\ FetchCurrentPrice(FeedNumber(price))

Next ==
    \/ \E q \in Reqs : LedgerStep(q)
    \/ Environment

Spec == Init /\ [][Next]_vars

\* the settlement engine over a ledger that serves one deduction at a time
SettleNext ==
    \/ \E a \in Amounts : DeductRequest("q1", "w1", a)
    \/ CreateBalance("q1")
    \/ SaveDeduction("q1")
    \/ CreateUsageRecord("q1")
    \/ Environment
    \/ SettlementStep

SettleSpec == Init /\ [][SettleNext]_vars

\* the submission of run r is confirmed by the chain
SubmitConfirmed(r) == SubmitSettlement(r) /\ run'[r].pc = "mark"

\* the settlement engine with the store reachable throughout, deductions
\* going on and the price feed answering
LiveNext ==
    \/ \E a \in Amounts : DeductRequest("q1", "w1", a)
    \/ CreateBalance("q1")
    \/ SaveDeduction("q1")
    \/ CreateUsageRecord("q1")
    \/ \E price \in Prices :
            /\ Len(priceCache) < MaxSamples
            /\ FetchCurrentPrice(FeedNumber(price))
    \/ ThresholdTick
    \/ \E r \in Triggers : ExecuteBatchSettlement(r)
    \/ \E r \in Triggers : SubmitSettlement(r)
    \/ \E r \in Triggers : MarkBatch(r)

\* the scheduled monitor keeps firing (setInterval), a run that has been
\* confirmed goes on to its marking, and a submission that is tried again and
\* again is confirmed in the end
LiveSpec ==
    /\ Init
    /\ [][LiveNext]_vars
    /\ WF_vars(ExecuteBatchSettlement("scheduled"))
    /\ \A r \in Triggers : WF_vars(MarkBatch(r))
    /\ \A r \in Triggers : SF_vars(SubmitConfirmed(r))

\* the settlement engine on its own, over the usage records an earlier run of
\* the service left in the store (all billed to w1, some already settled)
StoredRecord(amount, isSettled) ==
    [walletAddress |-> "w1", tokensBurned |-> amount, settled |-> isSettled,
     txHash |-> IF isSettled THEN "h1" ELSE "none"]

StoredRecords ==
    UNION {[1..n -> {StoredRecord(a, b) : a \in RecordAmounts, b \in BOOLEAN}] :
                n \in 0..MaxRecords}

\* the balance document that goes with the stored records: one deposit, spent
StoredBalance(records) ==
    IF records = <<>> THEN NoDocument
    ELSE LET total == SumTokens(records, [i \in 1..Len(records) |-> i])
         IN  [exists |-> TRUE, depositedAmount |-> total, consumedAmount |-> total,
              currentBalance |-> 0,
              transactions |->
                <<[type |-> "deposit", amount |-> total, txHash |-> "t1"]>> \o
                [i \in 1..Len(records) |->
                    [type |-> "usage", amount |-> 0 - records[i].tokensBurned,
                     txHash |-> "none"]],
              copies |-> 1]

EngineInit ==
    /\ mongoConnected = TRUE
    /\ usageRecords \in StoredRecords
    /\ balances = [w \in Wallets |->
                      IF w = "w1" THEN StoredBalance(usageRecords) ELSE NoDocument]
    /\ priceCache = <<>>
    /\ req = [q \in Reqs |-> IdleRequest]
    /\ started = 0
    /\ isSettling = FALSE
    /\ run = [r \in Triggers |-> IdleRun]
    /\ response = "none"
    /\ settlement = "none"
    /\ now = 0
    /\ burnFloor = DefaultBurnFloor
    /\ burnCeiling = DefaultBurnCeiling
    /\ returned = NothingReturned
    /\ ServicesAtStart

EngineNext ==
    \/ ThresholdTick
    \/ \E r \in Triggers : ExecuteBatchSettlement(r)
    \/ \E r \in Triggers : SubmitSettlement(r)
    \/ \E r \in Triggers : MarkBatch(r)
    \/ MongoDisconnect
    \/ MongoReconnect

EngineSpec == EngineInit /\ [][EngineNext]_vars

\* the ledger's interface called one call at a time, markAsSettled included
LedgerNext ==
    \/ LedgerStep("q1")
    \/ Environment
    \/ \E ids \in SUBSET (1..Len(usageRecords)), h \in Hashes : MarkAsSettledCall(ids, h)

LedgerSpec == Init /\ [][LedgerNext]_vars

\* the chat route in front of the ledger
ChatStep(q) ==
    \/ \E w \in Wallets, isComplete \in BOOLEAN, hasExceededLimit \in BOOLEAN,
          estimatedCost \in ChatCosts :
            ChatMessage(q, w, isComplete, hasExceededLimit, estimatedCost)
    \/ \E isAnswered \in BOOLEAN, actualCostUsd \in ChatCosts :
            ChatGenerate(q, isAnswered, actualCostUsd)
    \/ FindBalance(q)
    \/ CreateBalance(q)
    \/ SaveDeduction(q)
    \/ CreateUsageRecord(q)

ChatNext ==
    \/ \E q \in Reqs : ChatStep(q)
    \/ Environment

ChatSpec == Init /\ [][ChatNext]_vars

\* the price oracle on its own: the burn bounds as configured at construction,
\* the feed answering anything, callers reading prices while time passes
OracleInit ==
    /\ mongoConnected = TRUE
    /\ balances = [w \in Wallets |-> NoDocument]
    /\ usageRecords = <<>>
    /\ priceCache = <<>>
    /\ req = [q \in Reqs |-> IdleRequest]
    /\ started = 0
    /\ isSettling = FALSE
    /\ run = [r \in Triggers |-> IdleRun]
    /\ response = "none"
    /\ settlement = "none"
    /\ now = 0
    /\ burnFloor \in BurnBounds
    /\ burnCeiling \in BurnBounds
    /\ returned = NothingReturned
    /\ ServicesAtStart

OracleNext ==
    \/ \E priceValue \in FeedAnswers :
            /\ Len(priceCache) < MaxCache
            /\ FetchCurrentPrice(priceValue)
    \/ GetTWAPPriceCall
    \/ \E usdCost \in UsdCosts : CalculateTokenBurnCall(usdCost)
    \/ Tick

OracleSpec == OracleInit /\ [][OracleNext]_vars

\* ------------------------------------------------------- chain connection
\* every call in progress notes that endpoint url has just answered a probe
Noted(calls, url) ==
    [d \in Callers |->
        IF calls[d].pc \in {"health", "primary", "fallback"}
        THEN [calls[d] EXCEPT !.seen = @ \cup {url}]
        ELSE calls[d]]

\* getConnectionHealthy() up to its health check `connection.getVersion()`;
\* this.connection is never null, the constructor has set it
GetConnectionHealthy(c) ==
    /\ c # "boot"
    /\ conn[c].pc \in {"idle", "returned", "thrown"}
    /\ conn' = [conn EXCEPT ![c] =
                  [IdleCall EXCEPT !.pc = "health", !.target = solana.connection]]
    /\ UNCHANGED <<solana, voice>>
    /\ UNCHANGED <<priceCache, oracleVars, ledgerVars>>

\* the health check answers and this.connection is returned, or it fails and
\* initializeConnection() makes a handle for rpcUrl and tests it
HealthCheck(c, answers) ==
    /\ conn[c].pc = "health"
    /\ IF answers
       THEN /\ conn' = [Noted(conn, conn[c].target) EXCEPT
                            ![c].pc = "returned",
                            ![c].handle = solana.connection]
            /\ UNCHANGED solana
       ELSE /\ solana' = [solana EXCEPT !.connection = solana.rpcUrl]
            /\ conn' = [conn EXCEPT ![c].pc = "primary",
                                    ![c].target = solana.rpcUrl]
    /\ UNCHANGED voice
    /\ UNCHANGED <<priceCache, oracleVars, ledgerVars>>

\* initializeConnection(): the test of rpcUrl answers, or it fails and
\* tryFallback() starts with the first fallback
TestPrimary(c, answers) ==
    /\ conn[c].pc = "primary"
    /\ LET tried == Append(conn[c].tried, [url |-> conn[c].target, ok |-> answers])
       IN  IF answers
           THEN conn' = [Noted(conn, conn[c].target) EXCEPT
                            ![c].pc = "returned",
                            ![c].tried = tried,
                            ![c].handle = solana.connection]
           ELSE conn' = [conn EXCEPT ![c].pc = "fallback",
                                     ![c].tried = tried,
                                     ![c].i = 1,
                                     ![c].target = fallbackUrls[1]]
    /\ UNCHANGED <<solana, voice>>
    /\ UNCHANGED <<priceCache, oracleVars, ledgerVars>>

\* faulty variant: the loop gives up before the last fallback
ExhaustedEarly(i) == i >= Len(fallbackUrls)

\* for (let i = 0; i < this.fallbackUrls.length; i++): index i (from 1) is
\* past the list
Exhausted(i) == i > Len(fallbackUrls)

\* tryFallback(): the test of fallback i answers and the service adopts it,
\* or it fails and the loop goes on; past the list it throws
\* 'All Solana RPC endpoints failed'
TryFallback(c, answers) ==
    /\ conn[c].pc = "fallback"
    /\ LET url == conn[c].target
           tried == Append(conn[c].tried, [url |-> url, ok |-> answers])
       IN  IF answers
           THEN /\ solana' = [connection |-> url, rpcUrl |-> url,
                              currentUrlIndex |-> conn[c].i - 1]
                /\ conn' = [Noted(conn, url) EXCEPT
                                ![c].pc = "returned",
                                ![c].tried = tried,
                                ![c].handle = url]
           ELSE /\ UNCHANGED solana
                /\ IF Exhausted(conn[c].i + 1)
                   THEN conn' = [conn EXCEPT ![c].pc = "thrown",
                                             ![c].tried = tried]
                   ELSE conn' = [conn EXCEPT ![c].tried = tried,
                                             ![c].i = @ + 1,
                                             ![c].target = fallbackUrls[conn[c].i + 1]]
    /\ UNCHANGED voice
    /\ UNCHANGED <<priceCache, oracleVars, ledgerVars>>

\* the connection service on its own: SOLANA_RPC_URL set or left to the first
\* fallback, every probe answered or not as the network decides
ConnInit ==
    /\ mongoConnected = TRUE
    /\ balances = [w \in Wallets |-> NoDocument]
    /\ usageRecords = <<>>
    /\ priceCache = <<>>
    /\ req = [q \in Reqs |-> IdleRequest]
    /\ started = 0
    /\ isSettling = FALSE
    /\ run = [r \in Triggers |-> IdleRun]
    /\ response = "none"
    /\ settlement = "none"
    /\ now = 0
    /\ burnFloor = DefaultBurnFloor
    /\ burnCeiling = DefaultBurnCeiling
    /\ returned = NothingReturned
    /\ \E rpcUrl \in {"primary", fallbackUrls[1]} :
            /\ solana = NewService(rpcUrl)
            /\ conn = CallsAtStart(rpcUrl)
    /\ voice = [s \in Sessions |-> NoSession]

ConnNext ==
    \/ \E c \in Callers : GetConnectionHealthy(c)
    \/ \E c \in Callers, answers \in BOOLEAN : HealthCheck(c, answers)
    \/ \E c \in Callers, answers \in BOOLEAN : TestPrimary(c, answers)
    \/ \E c \in Callers, answers \in BOOLEAN : TryFallback(c, answers)

ConnSpec == ConnInit /\ [][ConnNext]_vars

\* ----------------------------------------------------------------- voice
\* createSession(): the session is put into the map and connect() opens a
\* WebSocket (the API key is configured)
CreateSession(s) ==
    /\ ~voice[s].created
    /\ voice' = [voice EXCEPT ![s] =
                    [NoSession EXCEPT !.created = TRUE, !.inMap = TRUE,
                                      !.ws = "set", !.socket = "connecting"]]
    /\ UNCHANGED <<solana, conn>>
    /\ UNCHANGED <<priceCache, oracleVars, ledgerVars>>

\* ws 'open': isConnected = true; the first time, connect() resolves and
\* createSession returns the session
SocketOpens(s) ==
    /\ voice[s].socket = "connecting"
    /\ voice' = [voice EXCEPT ![s].socket = "open",
                              ![s].isConnected = TRUE,
                              ![s].handed = TRUE]
    /\ UNCHANGED <<solana, conn>>
    /\ UNCHANGED <<priceCache, oracleVars, ledgerVars>>

\* handleReconnect(): up to maxReconnectAttempts, a timer that calls connect()
HandleReconnect(session) ==
    IF session.reconnectAttempts < maxReconnectAttempts
    THEN [session EXCEPT !.reconnectAttempts = @ + 1, !.timer = TRUE]
    ELSE session

\* ws 'close' with code: isConnected = false, the service's listener deletes
\* the session from the map, and any code but 1000 leads to handleReconnect
OnClose(session, code) ==
    LET closed == [session EXCEPT !.socket = "closed", !.closing = FALSE,
                                  !.isConnected = FALSE, !.inMap = FALSE]
    IN  IF code # 1000 THEN HandleReconnect(closed) ELSE closed

\* the connection attempt fails: ws 'error' (connect() rejects and, on the
\* first attempt, createSession deletes the session), then 'close' with 1006.
\* A process that the session's unhandled 'error' event ends takes no further
\* step
SocketFails(s) ==
    /\ voice[s].socket = "connecting"
    /\ voice' = [voice EXCEPT ![s] = OnClose(voice[s], 1006)]
    /\ UNCHANGED <<solana, conn>>
    /\ UNCHANGED <<priceCache, oracleVars, ledgerVars>>

\* the open socket closes: the peer or the network ends it, or the closing
\* handshake that close() began completes
SocketCloses(s, code) ==
    /\ voice[s].socket = "open"
    /\ voice' = [voice EXCEPT ![s] = OnClose(voice[s], code)]
    /\ UNCHANGED <<solana, conn>>
    /\ UNCHANGED <<priceCache, oracleVars, ledgerVars>>

\* the reconnect timer fires: connect() opens a new WebSocket
ReconnectTimer(s) ==
    /\ voice[s].timer
    /\ voice' = [voice EXCEPT ![s].timer = FALSE,
                              ![s].ws = "set",
                              ![s].socket = "connecting"]
    /\ UNCHANGED <<solana, conn>>
    /\ UNCHANGED <<priceCache, oracleVars, ledgerVars>>

\* close(): with a socket held, ws.close() if it is OPEN, then ws = null and
\* isConnected = false; without one, nothing
CloseSession(session) ==
    IF session.ws = "set"
    THEN [session EXCEPT !.closing = (session.socket = "open"),
                         !.ws = "null",
                         !.isConnected = FALSE,
                         !.closeCalled = TRUE]
    ELSE [session EXCEPT !.closeCalled = TRUE]

\* the holder of the session calls close()
Close(s) ==
    /\ voice[s].handed
    /\ voice' = [voice EXCEPT ![s] = CloseSession(voice[s])]
    /\ UNCHANGED <<solana, conn>>
    /\ UNCHANGED <<priceCache, oracleVars, ledgerVars>>

\* closeAllSessions(): close() on every session in the map, then
\* sessions.clear()
CloseAllSessions ==
    /\ \E s \in Sessions : voice[s].inMap
    /\ voice' = [s \in Sessions |->
                    IF voice[s].inMap
                    THEN [CloseSession(voice[s]) EXCEPT !.inMap = FALSE]
                    ELSE voice[s]]
    /\ UNCHANGED <<solana, conn>>
    /\ UNCHANGED <<priceCache, oracleVars, ledgerVars>>

VoiceNext ==
    \/ \E s \in Sessions : CreateSession(s)
    \/ \E s \in Sessions : SocketOpens(s)
    \/ \E s \in Sessions : SocketFails(s)
    \/ \E s \in Sessions, code \in CloseCodes : SocketCloses(s, code)
    \/ \E s \in Sessions : ReconnectTimer(s)
    \/ \E s \in Sessions : Close(s)
    \/ CloseAllSessions

\* the voice service on its own
VoiceSpec == Init /\ [][VoiceNext]_vars


\* ================================================================ properties
\* what a reader of wallet w sees: the four fields, a wallet without a
\* document reading as the zeroed default
WalletView(w) ==
    [depositedAmount |-> balances[w].depositedAmount,
     consumedAmount |-> balances[w].consumedAmount,
     currentBalance |-> balances[w].currentBalance,
     transactions |-> balances[w].transactions]

LedgerView == [w \in Wallets |-> WalletView(w)]

\* number of deposit transactions carrying reference t over all wallets
TotalDeposits(t) ==
    Cardinality({e \in Wallets \X (1..(MaxRequests + 1)) :
        /\ e[2] <= Len(balances[e[1]].transactions)
        /\ balances[e[1]].transactions[e[2]].type = "deposit"
        /\ balances[e[1]].transactions[e[2]].txHash = t})

InFlight(r) == run[r].pc \in {"submit", "mark"}

\* C1: in every reachable state every wallet's currentBalance is >= 0.
C1_NonNegativeBalance ==
    \A w \in Wallets : balances[w].currentBalance >= 0

\* C2: the persisted record of every wallet always satisfies
\* currentBalance = depositedAmount - consumedAmount.
C2_Conservation ==
    \A w \in Wallets :
        balances[w].currentBalance =
            balances[w].depositedAmount - balances[w].consumedAmount

\* C3: two deductions in flight on one wallet that both read the balance c,
\* each amount fitting c but the two together exceeding it, never both get
\* their deduction saved.
C3_AtMostOneSucceeds ==
    \A p \in Reqs, q \in Reqs :
        ( /\ p # q
          /\ req[p].kind = "deduct" /\ req[q].kind = "deduct"
          /\ req[p].walletAddress = req[q].walletAddress
          /\ req[p].balance.currentBalance = req[q].balance.currentBalance
          /\ req[p].amount <= req[p].balance.currentBalance
          /\ req[q].amount <= req[q].balance.currentBalance
          /\ req[p].amount + req[q].amount > req[p].balance.currentBalance )
        => ~(req[p].pc = "usage" /\ req[q].pc = "usage")

\* C4: a deduction of more than the currentBalance it reads ends with the
\* insufficient-balance error, and no step of it up to and including that
\* refusal changes any wallet's fields or transaction list or adds a
\* UsageRecord.
C4_NoOverSpend ==
    [][\A q \in Reqs :
         /\ ( /\ req[q].kind = "deduct" /\ req[q].pc = "save"
              /\ req[q].amount > req[q].balance.currentBalance
              /\ req'[q] # req[q] )
            => ( /\ response' = "InsufficientBalance"
                 /\ req'[q].pc = "idle"
                 /\ balances' = balances
                 /\ usageRecords' = usageRecords )
         /\ ( /\ req'[q] # req[q]
              /\ \/ req[q].pc = "idle" /\ req'[q].kind = "deduct"
                 \/ req[q].pc = "create" /\ req[q].kind = "deduct" )
            => ( /\ LedgerView' = LedgerView
                 /\ usageRecords' = usageRecords )
      ]_vars

C4_Witness ==
    /\ response = "InsufficientBalance"
    /\ \E w \in Wallets : balances[w].exists /\ balances[w].currentBalance < 2

\* C5: a verified deposit whose reference was already on some wallet's list
\* when it was submitted never gets past the duplicate check: it is answered
\* DuplicateTransaction (an error if the store is unreachable) and no wallet
\* is credited.
C5_DuplicateRejected ==
    /\ [](\A q \in Reqs : req[q].dupAtStart => req[q].pc = "dupcheck")
    /\ [][\A q \in Reqs :
            (req[q].dupAtStart /\ req'[q] # req[q])
            => ( /\ balances' = balances
                 /\ req'[q].pc = "idle"
                 /\ response' = IF mongoConnected THEN "DuplicateTransaction"
                                                  ELSE "error" )
         ]_vars

C5_Witness ==
    /\ response = "DuplicateTransaction"
    /\ \E t \in TxRefs : TotalDeposits(t) = 1

\* C6: for every transaction reference at most one deposit Transaction with
\* that txHash is recorded across all wallets.
C6_CreditedAtMostOnce ==
    \A t \in TxRefs : TotalDeposits(t) <= 1

\* C7: at most one settlement run is in flight at any time over all
\* triggers, and it is the holder of the settlement lock.
C7_SingleSettlementInFlight ==
    /\ \A r1 \in Triggers, r2 \in Triggers :
          (InFlight(r1) /\ InFlight(r2)) => r1 = r2
    /\ isSettling <=> \E r \in Triggers : InFlight(r)

C7_Witness ==
    /\ settlement = "skipped"
    /\ \E r \in Triggers : InFlight(r)

\* C8: a settlement run changes usage records only in its marking step after
\* the confirmation, and that step marks every record of the batch with the
\* confirmed hash; a failed submission ends the run with no record changed
\* and every still unsettled record of the batch is returned by the next
\* getUnsettledRecords.
C8_MarkOnlyAfterConfirmation ==
    [][\A r \in Triggers :
         (run'[r] # run[r]) =>
            /\ (run[r].pc # "mark") => usageRecords' = usageRecords
            /\ (run[r].pc = "mark" /\ mongoConnected) =>
                  \A i \in IdsOf(run[r].batch) :
                     /\ usageRecords'[i].settled
                     /\ usageRecords'[i].txHash = run[r].txHash
            /\ (run[r].pc = "mark") =>
                  \/ \A i \in IdsOf(run[r].batch) : usageRecords'[i].settled
                  \/ usageRecords' = usageRecords
            /\ (run[r].pc = "submit" /\ run'[r].pc = "idle" /\ mongoConnected) =>
                  \A i \in IdsOf(run[r].batch) :
                     ~usageRecords[i].settled
                        => i \in IdsOf(GetUnsettledRecords(BatchLimit))'
      ]_vars

C8_Witness ==
    /\ settlement = "settled"
    /\ \E i \in 1..Len(usageRecords), j \in 1..Len(usageRecords) :
          /\ i # j
          /\ usageRecords[i].settled /\ usageRecords[j].settled
          /\ usageRecords[i].txHash = usageRecords[j].txHash

\* C9: once a usage record is settled it stays settled and its settlement
\* hash never changes.
C9_SettledOnce ==
    [][\A i \in 1..Len(usageRecords) :
         usageRecords[i].settled =>
            /\ usageRecords'[i].settled
            /\ usageRecords'[i].txHash = usageRecords[i].txHash
      ]_vars

\* C10: marking the same record ids a second time, with whatever hash,
\* leaves the records as the first marking left them.
C10_MarkSettledIdempotent ==
    \A ids \in SUBSET (1..Len(usageRecords)), h1 \in Hashes, h2 \in Hashes :
        MarkAsSettled(MarkAsSettled(usageRecords, ids, h1), ids, h2)
            = MarkAsSettled(usageRecords, ids, h1)

\* ------------------------------------------------------ price oracle claims
\* a and b are the same number
SameNumber(a, b) ==
    /\ a.kind = b.kind
    /\ a.kind = "num" => a.num * b.den = b.num * a.den

\* v lies in [burnFloor, burnCeiling]
WithinBurnBounds(v) == LessEq(burnFloor, v) /\ LessEq(v, burnCeiling)

\* C15: every value calculateTokenBurn returns lies in
\* [burnFloor, burnCeiling], whatever the cost and the configured bounds.
C15_AlwaysWithinBounds ==
    (returned.call = "calculateTokenBurn" /\ returned.ok)
        => WithinBurnBounds(returned.value)

\* C15 (amended): for every cost that is a number (not NaN), every positive
\* windowed price and every configured pair with burnFloor <= burnCeiling,
\* the value calculateTokenBurn returns lies in [burnFloor, burnCeiling].
C15_WithinOrderedBounds ==
    [][\A usdCost \in UsdCosts :
         ( /\ CalculateTokenBurnCall(usdCost)
           /\ returned'.ok
           /\ ~IsNaN(usdCost)
           /\ LessEq(burnFloor, burnCeiling) )
         => WithinBurnBounds(returned'.value)
      ]_vars

C15_Witness ==
    /\ returned.call = "calculateTokenBurn" /\ returned.ok
    /\ Less(burnFloor, burnCeiling)
    /\ SameNumber(returned.value, burnCeiling)
    /\ Len(priceCache) > 0

\* the samples whose age is within the window, by position
InWindow == {i \in 1..Len(priceCache) : now - priceCache[i].timestamp <= TwapWindow}

RECURSIVE TotalOf(_)
\* the sum of the prices at the positions S
TotalOf(S) ==
    IF S = {} THEN Number(0)
    ELSE LET i == CHOOSE j \in S : TRUE
         IN  Plus(priceCache[i].price, TotalOf(S \ {i}))

PricesOf(cache) == [i \in 1..Len(cache) |-> cache[i].price]

\* C16: getTWAPPrice returns the arithmetic mean of exactly the samples whose
\* age is within the window; with no sample in the window it returns the
\* most recent sample's price whatever its age; it throws only on a cache
\* that holds no sample.  In-window samples 10, 12, 11 give 11.
C16_WindowedMean ==
    [][GetTWAPPriceCall =>
         IF Len(priceCache) = 0
         THEN ~returned'.ok
         ELSE /\ returned'.ok
              /\ IF InWindow = {}
                 THEN returned'.value = priceCache[Len(priceCache)].price
                 ELSE SameNumber(returned'.value,
                                 DividedBy(TotalOf(InWindow), Cardinality(InWindow)))
              /\ ( /\ PricesOf(priceCache) = <<Number(10), Number(12), Number(11)>>
                   /\ InWindow = 1..3 )
                 => SameNumber(returned'.value, Number(11))
      ]_vars

C16_Witness ==
    /\ returned.call = "getTWAPPrice" /\ returned.ok
    /\ PricesOf(priceCache) = <<Number(10), Number(12), Number(11)>>
    /\ InWindow = 1..3
    /\ SameNumber(returned.value, Number(11))

\* the feed's answer is a finite positive number
FinitePositive(priceValue) == priceValue.tag = "number" /\ priceValue.n > 0

\* C17: fetchCurrentPrice appends a sample only when the fetched value is a
\* finite positive number, and then returns that value; otherwise the cache
\* is left as it was and the call returns the most recent cached price, or
\* throws when the cache is empty.
C17_AppendsOnlyFinitePositive ==
    [][\A priceValue \in FeedAnswers :
         FetchCurrentPrice(priceValue) =>
            IF FinitePositive(priceValue)
            THEN /\ Len(priceCache') >= 1
                 /\ priceCache'[Len(priceCache')].price = Number(priceValue.n)
                 /\ priceCache'[Len(priceCache')].timestamp = now
                 /\ returned'.ok /\ returned'.value = Number(priceValue.n)
            ELSE /\ priceCache' = priceCache
                 /\ IF Len(priceCache) > 0
                    THEN /\ returned'.ok
                         /\ returned'.value = priceCache[Len(priceCache)].price
                    ELSE ~returned'.ok
      ]_vars

\* the feed's answer passes the checks of fetchCurrentPrice
Accepted(priceValue) == ~FeedThrows(priceValue) /\ ~InvalidPrice(ParseFloat(priceValue))

Quiescent == \A q \in Reqs : req[q].pc = "idle"

\* number of usage transactions on wallet w's list
UsageTransactions(w) ==
    Cardinality({i \in 1..Len(balances[w].transactions) :
                    balances[w].transactions[i].type = "usage"})

\* the usage records of wallet w, by id
RecordsOf(w) == {i \in 1..Len(usageRecords) : usageRecords[i].walletAddress = w}

RECURSIVE BurnedBy(_)
\* sum of tokensBurned over the record ids S
BurnedBy(S) ==
    IF S = {} THEN 0
    ELSE LET i == CHOOSE j \in S : TRUE
         IN  usageRecords[i].tokensBurned + BurnedBy(S \ {i})

\* C12: whenever no call is in progress, every wallet has as many usage
\* records as usage transactions and their tokensBurned sum to the wallet's
\* consumedAmount, also when the price lookup or the record write failed
\* after the balance was saved.
C12_OneUsageRecordPerDeduction ==
    Quiescent =>
        \A w \in Wallets :
            /\ Cardinality(RecordsOf(w)) = UsageTransactions(w)
            /\ BurnedBy(RecordsOf(w)) = balances[w].consumedAmount

\* C14: a deposit is credited only after the verifier answered valid: a
\* POST /deposit whose verification fails is answered VerificationFailed with
\* no wallet changed, no unverified deposit or scan gets as far as
\* recordDeposit, and every deposit transaction appended is the one of a
\* verified request.
C14_CreditOnlyIfVerified ==
    /\ [](\A q \in Reqs :
            (req[q].kind \in {"deposit", "scan"} /\ req[q].pc \in {"find", "create", "save"})
                => req[q].verified)
    /\ [][/\ \A q \in Reqs, w \in Wallets, a \in Amounts, t \in TxRefs :
                DepositRequest(q, w, a, t, FALSE)
                    => ( /\ response' = "VerificationFailed"
                         /\ req'[q].pc = "idle"
                         /\ balances' = balances )
          /\ \A w \in Wallets :
                ( /\ Len(balances'[w].transactions) > Len(balances[w].transactions)
                  /\ balances'[w].transactions[Len(balances'[w].transactions)].type = "deposit" )
                => \E q \in Reqs :
                      /\ req[q].verified /\ req[q].pc = "save"
                      /\ req[q].walletAddress = w
                      /\ req[q].txHash =
                            balances'[w].transactions[Len(balances'[w].transactions)].txHash
         ]_vars

C14_Witness ==
    /\ response = "VerificationFailed"
    /\ \E q \in Reqs : req[q].kind = "scan" /\ req[q].verified /\ req[q].pc = "save"

C20_HasSufficientBalancePure ==
    [][\A q \in Reqs :
         /\ \A w \in Wallets, a \in Amounts :
                HasSufficientBalanceRequest(q, w, a)
                    => (balances' = balances /\ usageRecords' = usageRecords)
         /\ (req[q].kind = "hasSufficientBalance" /\ req'[q] # req[q])
                => (balances' = balances /\ usageRecords' = usageRecords)
      ]_vars

NoUnsettled == \A i \in 1..Len(usageRecords) : usageRecords[i].settled

\* C13: a run started while no usage record is unsettled ends at once: it
\* submits nothing, marks nothing, takes no lock and leaves totalBurned,
\* totalToTreasury and pendingSettlement as they were.
C13_EmptyBatchNoOp ==
    [][\A r \in Triggers :
         (NoUnsettled /\ ExecuteBatchSettlement(r))
            => ( /\ run'[r] = IdleRun
                 /\ settlement' \in {"empty", "skipped"}
                 /\ isSettling' = isSettling
                 /\ usageRecords' = usageRecords
                 /\ SettlementStats' = SettlementStats )
      ]_vars

C13_Witness ==
    /\ settlement = "empty"
    /\ mongoConnected
    /\ Len(usageRecords) >= 1
    /\ NoUnsettled

\* what getUnsettledRecords(limit) has to answer on a reachable store
OldestUnsettled(limit) ==
    LET R == GetUnsettledRecords(limit)
        U == {i \in 1..Len(usageRecords) : ~usageRecords[i].settled}
    IN  /\ Len(R) <= limit
        /\ Len(R) = (IF Cardinality(U) < limit THEN Cardinality(U) ELSE limit)
        /\ \A k \in 1..Len(R) : R[k] \in U
        /\ \A k \in 1..(Len(R) - 1) : R[k] < R[k + 1]
        /\ \A i \in IdsOf(R), j \in U : j < i => j \in IdsOf(R)

\* C19: for every limit, getUnsettledRecords(limit) returns at most limit
\* records, all unsettled, oldest first, leaving out no unsettled record
\* older than one it returns.
C19_OldestFirstAnyLimit ==
    mongoConnected => \A limit \in 0..MaxRecords : OldestUnsettled(limit)

\* C19 (amended): the same for every limit >= 1.
C19_OldestFirstPositiveLimit ==
    mongoConnected => \A limit \in 1..MaxRecords : OldestUnsettled(limit)

C19_Witness ==
    /\ mongoConnected
    /\ Len(usageRecords) = 3
    /\ usageRecords[1].settled /\ ~usageRecords[2].settled /\ ~usageRecords[3].settled
    /\ \E r \in Triggers : run[r].pc = "submit" /\ run[r].batch = <<2, 3>>
    /\ GetUnsettledRecords(1) = <<2>>

\* ------------------------------------------------- ledger claims, continued
\* C21: recordDeposit and deductTokens accept only amount > 0: the saving
\* step of a call with amount <= 0 ends in an error and changes no document
\* and no usage record, no saved deduction raises the wallet's currentBalance
\* and no saved deposit lowers it.
C21_PositiveAmountsOnly ==
    [][\A q \in Reqs :
         (req[q].pc = "save" /\ req'[q] # req[q]) =>
            /\ req[q].amount <= 0 =>
                  ( /\ balances' = balances
                    /\ usageRecords' = usageRecords
                    /\ response' \notin {"ok", "none"}
                    /\ req'[q].pc = "idle" )
            /\ req[q].kind = "deduct" =>
                  balances'[req[q].walletAddress].currentBalance
                      <= balances[req[q].walletAddress].currentBalance
            /\ req[q].kind \in {"deposit", "scan"} =>
                  balances'[req[q].walletAddress].currentBalance
                      >= balances[req[q].walletAddress].currentBalance
      ]_vars

\* list a is a prefix of list b
IsPrefix(a, b) == Len(a) <= Len(b) /\ SubSeq(b, 1, Len(a)) = a

\* C22: in every step of every interleaving each wallet's transaction list
\* only grows at its end, by at most one entry; a deposit that is saved
\* appends exactly the entry (deposit, amount, txHash) and a deduction that is
\* saved exactly the entry (usage, -amount) to its wallet's list.
C22_TransactionsAppendOnly ==
    [][/\ \A w \in Wallets :
            /\ IsPrefix(balances[w].transactions, balances'[w].transactions)
            /\ Len(balances'[w].transactions) <= Len(balances[w].transactions) + 1
       /\ \A q \in Reqs :
            /\ (SaveDeposit(q) /\ response' = "ok") =>
                  balances'[req[q].walletAddress].transactions =
                      Append(balances[req[q].walletAddress].transactions,
                             [type |-> "deposit", amount |-> req[q].amount,
                              txHash |-> req[q].txHash])
            /\ (SaveDeduction(q) /\ req'[q].pc = "usage") =>
                  balances'[req[q].walletAddress].transactions =
                      Append(balances[req[q].walletAddress].transactions,
                             [type |-> "usage", amount |-> 0 - req[q].amount,
                              txHash |-> "none"])
      ]_vars

\* a deposit and a deduction raced on one wallet (its fields no longer add
\* up) and both entries are on the list behind the earlier one
C22_Witness ==
    \E w \in Wallets :
        /\ Len(balances[w].transactions) = 3
        /\ balances[w].transactions[1] = FundedBalance.transactions[1]
        /\ {balances[w].transactions[2].type, balances[w].transactions[3].type}
                = {"deposit", "usage"}
        /\ balances[w].currentBalance
                # balances[w].depositedAmount - balances[w].consumedAmount

\* ------------------------------------------- settlement claims, continued
\* tokensBurned summed over all currently unsettled records
PendingTokens == SumTokens(usageRecords, UnsettledFrom(usageRecords, 1))

\* C23: on every tick of the threshold monitor over a reachable store,
\* settlement is triggered if and only if the tokensBurned of all currently
\* unsettled records sum to at least the threshold, however many there are.
C23_TriggersIffThresholdReached ==
    [][(ThresholdTick /\ mongoConnected) =>
          (run'["threshold"].pc = "trigger" <=> PendingTokens >= thresholdTokens)
      ]_vars

\* C25: the collection never holds more than one document per wallet, also
\* when first accesses of a new wallet interleave; a document starts zeroed
\* and is never deleted.
C25_OneDocumentPerWallet ==
    /\ [](\A w \in Wallets :
            /\ balances[w].copies <= 1
            /\ balances[w].exists <=> balances[w].copies = 1)
    /\ [][\A w \in Wallets :
            /\ balances[w].exists => balances'[w].exists
            /\ (~balances[w].exists /\ balances'[w].exists)
                  => balances'[w] = NewTokenBalance
         ]_vars

\* a first access lost the race for a new wallet: its insert was refused
\* while the winner still holds the zeroed document it created
C25_Witness ==
    /\ response = "DuplicateKey"
    /\ \E q \in Reqs :
          /\ req[q].pc = "save"
          /\ balances[req[q].walletAddress] = NewTokenBalance

\* the wallet the call in slot q is made on, taken from the call once it is
\* in progress
CallOf(q) == IF req[q].pc = "idle" THEN req'[q] ELSE req[q]

\* C27: no step of a recordDeposit (through either deposit route) or a
\* deductTokens on wallet A, successful or failed, changes the document of
\* another wallet B, whatever calls on B are in progress.
C27_OtherWalletsUntouched ==
    [][\A q \in Reqs, B \in Wallets :
         ( /\ req'[q] # req[q]
           /\ CallOf(q).kind \in {"deposit", "scan", "deduct"}
           /\ CallOf(q).walletAddress # B )
         => balances'[B] = balances[B]
      ]_vars

\* a call on w1 has been saved while a call on w2, whose wallet holds a
\* document of its own, is between its read and its save
C27_Witness ==
    /\ Len(balances["w1"].transactions) = 2
    /\ balances["w2"].exists
    /\ \E q \in Reqs :
          /\ req[q].walletAddress = "w2"
          /\ req[q].pc = "save"

\* ------------------------------------------------------- chat route claims
\* C24: a chat request that cannot be paid is answered 402 and leaves every
\* wallet's fields and list as they read before: both when the pre-check
\* found the balance short (the step that answers the request) and when the
\* final deductTokens found it short.
C24_InsufficientIsPaymentRequired ==
    [][\A q \in Reqs :
         (req[q].route = "chat" /\ req'[q] # req[q]) =>
            /\ ( /\ req[q].kind = "getBalance"
                 /\ req'[q].pc = "idle" )
               => (response' = "402" /\ LedgerView' = LedgerView)
            /\ ( /\ req[q].kind = "deduct" /\ req[q].pc = "save"
                 /\ InsufficientBalance(req[q].balance, req[q].amount) )
               => (response' = "402" /\ LedgerView' = LedgerView)
      ]_vars

ProbedInOrder(c) ==
    LET tried == conn[c].tried
    IN  /\ Len(tried) <= Len(fallbackUrls) + 1
        /\ \A k \in 1..Len(tried) :
              /\ k >= 2 => tried[k].url = fallbackUrls[k - 1]
              /\ k < Len(tried) => ~tried[k].ok

\* every endpoint call c could try has failed its probe
AllFailed(c) ==
    /\ Len(conn[c].tried) = Len(fallbackUrls) + 1
    /\ \A k \in 1..Len(conn[c].tried) : ~conn[c].tried[k].ok

C30_ClosedStaysClosed ==
    /\ [](\A s \in Sessions :
            voice[s].closeCalled =>
                /\ ~voice[s].isConnected
                /\ voice[s].socket # "open" => ~voice[s].inMap)
    /\ [][\A s \in Sessions :
            voice[s].closeCalled =>
                /\ ~(voice'[s].timer /\ ~voice[s].timer)
                /\ ~(voice'[s].socket = "connecting" /\ voice[s].socket # "connecting")
         ]_vars

====
